---- MODULE Spec2Model ----
(***************************************************************************)
(* Verification model of lindorm-memobase: the ingestion buffer (buffer    *)
(* rows, flush calls, watchdog), the extraction pipeline over the profile  *)
(* store (LindormTableStorage), the event gist search with the context     *)
(* assembly, and the LLM gateway, behind the LindormMemobase facade; the   *)
(* module-level profile store calls, the truncation of gist lists, and the *)
(* background extraction queue of the chat_memory cookbook.                *)
(***************************************************************************)
EXTENDS Integers, Sequences, FiniteSets, TLC

(* ------------------------------ bounds -------------------------------- *)
MaxBuffers == 2
MaxFlushes == 2
MaxTime == 3

Users == {"u1", "u2"}
BufferUsers == {"u1"}
ExtractUsers == {"u1"}
BlobTypes == {"chat", "doc"}
TokenSizes == {1, 2}
Flushes == 1..MaxFlushes

(* ------------------------- configuration ------------------------------ *)
max_chat_blob_buffer_token_size == 1
max_doc_blob_buffer_token_size == 2
max_buffer_age == 1

BufferThreshold(t) ==
  IF t = "chat" THEN max_chat_blob_buffer_token_size
  ELSE max_doc_blob_buffer_token_size

VARIABLES
  buffer,        \* buffer_zone rows, indexed by buffer id (1..Len) in insert order
  flush,         \* one record per flush call: position and claimed batch
  now,           \* the clock that stamps created_at
  blobs,         \* blob_content rows
  profiles,      \* user_profiles rows
  nextPid,       \* the next fresh profile_id
  events,        \* event records written by event synthesis
  ext,           \* one record per extract_memories call
  lastExt,       \* the extract_memories call that returned last
  validate_mode, \* Config.profile_validate_mode
  gists,         \* event_gists rows
  enable_event_embedding,  \* Config.enable_event_embedding
  call,          \* the last facade or search call and what it returned
  mysql_storage, \* the module-level storage object of user_profiles.py
  bot            \* the MemoryChatbot: its queue, worker task and chat loop

bufVars == <<buffer, flush, now, blobs>>
extVars == <<profiles, nextPid, events, ext, lastExt, validate_mode>>
appVars == <<mysql_storage, bot>>
apiVars == <<gists, enable_event_embedding, call, mysql_storage, bot>>
vars == <<buffer, flush, now, blobs, profiles, nextPid, events, ext, lastExt,
          validate_mode, gists, enable_event_embedding, call, mysql_storage,
          bot>>

BufferStatus == {"idle", "processing", "done", "failed"}

BufferIds == 1..Len(buffer)

(* ----------------------- buffer_zone statements ----------------------- *)

\* ORDER BY created_at over a set of buffer ids
RECURSIVE OrderByCreatedAt(_)
OrderByCreatedAt(S) ==
  IF S = {} THEN <<>>
  ELSE LET m == CHOOSE x \in S :
                  \A y \in S : buffer[x].created_at <= buffer[y].created_at
       IN <<m>> \o OrderByCreatedAt(S \ {m})

\* faulty variant: the ordering clause sorts newest first
RECURSIVE OrderByCreatedAtDesc(_)
OrderByCreatedAtDesc(S) ==
  IF S = {} THEN <<>>
  ELSE LET m == CHOOSE x \in S :
                  \A y \in S : buffer[x].created_at >= buffer[y].created_at
       IN <<m>> \o OrderByCreatedAtDesc(S \ {m})

\* faulty variant: the status = idle condition is missing from the WHERE clause
SelectAnyStatus(u, t, ids) ==
  OrderByCreatedAt({b \in BufferIds :
      /\ buffer[b].user_id = u
      /\ buffer[b].blob_type = t
      /\ b \in ids})

\* faulty variant: the rows come back newest first
SelectNewestFirst(u, t, ids) ==
  OrderByCreatedAtDesc({b \in BufferIds :
      /\ buffer[b].user_id = u
      /\ buffer[b].blob_type = t
      /\ buffer[b].status = "idle"
      /\ b \in ids})

\* SELECT id FROM buffer_zone WHERE user_id = u AND blob_type = t
\*   AND status = idle AND id IN ids ORDER BY created_at
SelectIdle(u, t, ids) ==
  OrderByCreatedAt({b \in BufferIds :
      /\ buffer[b].user_id = u
      /\ buffer[b].blob_type = t
      /\ buffer[b].status = "idle"
      /\ b \in ids})

SeqToSet(s) == {s[i] : i \in 1..Len(s)}

\* faulty variant: the UPDATE touches only the first id of the list
SetStatusFirstOnly(buf, ids, st) ==
  [b \in DOMAIN buf |->
     IF Len(ids) > 0 /\ b = ids[1] THEN [buf[b] EXCEPT !.status = st]
     ELSE buf[b]]

\* UPDATE buffer_zone SET status = st WHERE id = b, for every id of the list
SetStatus(buf, ids, st) ==
  [b \in DOMAIN buf |->
     IF b \in SeqToSet(ids) THEN [buf[b] EXCEPT !.status = st] ELSE buf[b]]

(* ------------------------------ reads --------------------------------- *)

\* idle_ids(user, blob_type): the idle rows in insertion order
idle_ids(u, t) == SelectIdle(u, t, BufferIds)

\* capacity(user, blob_type)
capacity(u, t) == Len(idle_ids(u, t))

RECURSIVE SumTokens(_)
SumTokens(s) ==
  IF s = <<>> THEN 0 ELSE buffer[Head(s)].token_size + SumTokens(Tail(s))

\* walk the idle rows in order, stop after the row that makes the running
\* sum exceed the threshold; nothing when the sum is never exceeded
RECURSIVE FullPrefix(_, _, _, _)
FullPrefix(rest, acc, sum, limit) ==
  IF sum > limit THEN acc
  ELSE IF rest = <<>> THEN <<>>
  ELSE FullPrefix(Tail(rest), Append(acc, Head(rest)),
                  sum + buffer[Head(rest)].token_size, limit)

IsAged(b) == now - buffer[b].created_at > max_buffer_age

\* faulty variant: every idle row is returned once the threshold is exceeded
flush_candidates_all(u, t) ==
  LET idle == idle_ids(u, t)
  IN IF SumTokens(idle) > BufferThreshold(t) THEN idle
     ELSE OrderByCreatedAt({b \in SeqToSet(idle) : IsAged(b)})

\* flush_candidates(user, blob_type, config)
flush_candidates(u, t) ==
  LET idle == idle_ids(u, t)
      full == FullPrefix(idle, <<>>, 0, BufferThreshold(t))
      aged == {b \in SeqToSet(idle) : IsAged(b)}
  IN OrderByCreatedAt(SeqToSet(full) \cup aged)

(* ----------------------- blob_content statements ---------------------- *)

\* faulty variant: the IN list holds only one of the blob ids
SelectBlobsOneId(u, blob_ids) ==
  IF blob_ids = {} THEN {}
  ELSE LET one == CHOOSE x \in blob_ids : \A y \in blob_ids : x <= y
       IN {r \in blobs : r.user_id = u /\ r.blob_id = one}

\* SELECT blob_id, blob_data, created_at FROM blob_content
\*   WHERE user_id = u AND blob_id IN blob_ids
SelectBlobs(u, blob_ids) ==
  {r \in blobs : r.user_id = u /\ r.blob_id \in blob_ids}

\* blob_map lookup of every buffer row of the batch
PairBlobs(batch, found) ==
  [i \in 1..Len(batch) |->
     {r \in found : r.blob_id = buffer[batch[i]].blob_id}]

\* no call made yet
NoCall == [op |-> "none"]

\* mysql_storage = None
NoStorage == "None"

\* a chatbot that has not been started
NoBot == [pc |-> "none"]

InitAppVars ==
  /\ mysql_storage = NoStorage
  /\ bot = NoBot

InitApiVars ==
  /\ gists = <<>>
  /\ enable_event_embedding = TRUE
  /\ call = NoCall
  /\ InitAppVars

(* ----------------------------- actions -------------------------------- *)

\* dropped: some requested row of the flushed buffer was no longer idle
\* bodies: per batch row, the blob_content rows found for its blob_id
NewFlush == [pc |-> "new", batch |-> <<>>, dropped |-> FALSE, bodies |-> <<>>]

InitBufferVars ==
  /\ buffer = <<>>
  /\ flush = [f \in Flushes |-> NewFlush]
  /\ now = 0
  /\ blobs = {}

\* insert(user, blob_id, blob): the blob body goes to blob_content and one
\* idle row, stamped with the current time, to buffer_zone; the caller
\* passes a fresh blob_id
InsertBlob(u, t, tok) ==
  /\ Len(buffer) < MaxBuffers
  /\ now < MaxTime
  /\ LET blob_id == Len(buffer) + 1
     IN /\ blobs' = blobs \cup {[user_id |-> u, blob_id |-> blob_id,
                                  blob_type |-> t]}
        /\ buffer' = Append(buffer, [user_id |-> u, blob_type |-> t,
                                     blob_id |-> blob_id,
                                     token_size |-> tok, status |-> "idle",
                                     created_at |-> now])
  /\ now' = now + 1
  /\ UNCHANGED <<flush, extVars, apiVars>>

Tick ==
  /\ now < MaxTime
  /\ now' = now + 1
  /\ UNCHANGED <<buffer, flush, blobs, extVars, apiVars>>

\* flush steps 1-3: the selected idle rows become processing in one
\* statement and the ordered batch is handed to the extraction pipeline;
\* a flush that selects nothing returns at once
FlushClaim(f, u, t, ids) ==
  /\ flush[f].pc = "new"
  /\ \A g \in Flushes : g < f => flush[g].pc # "new"  \* calls numbered by start
  /\ LET batch == SelectIdle(u, t, ids)
     IN /\ buffer' = SetStatus(buffer, batch, "processing")
        /\ flush' = [flush EXCEPT ![f] =
              [pc |-> IF batch = <<>> THEN "empty" ELSE "running",
               batch |-> batch,
               bodies |-> PairBlobs(batch,
                            SelectBlobs(u, {buffer[batch[i]].blob_id :
                                              i \in 1..Len(batch)})),
               dropped |-> \E b \in ids : /\ buffer[b].user_id = u
                                            /\ buffer[b].blob_type = t
                                            /\ buffer[b].status # "idle"]]
  /\ UNCHANGED <<now, blobs, extVars, apiVars>>

\* flush step 4, pipeline succeeded
FlushSucceed(f) ==
  /\ flush[f].pc = "running"
  /\ buffer' = SetStatus(buffer, flush[f].batch, "done")
  /\ flush' = [flush EXCEPT ![f].pc = "ok"]
  /\ UNCHANGED <<now, blobs, extVars, apiVars>>

\* flush step 4, pipeline failed: rows failed, error re-raised
FlushFail(f) ==
  /\ flush[f].pc = "running"
  /\ buffer' = SetStatus(buffer, flush[f].batch, "failed")
  /\ flush' = [flush EXCEPT ![f].pc = "raised"]
  /\ UNCHANGED <<now, blobs, extVars, apiVars>>

\* faulty variant: a cancelled flush puts its rows back to idle
FlushCancelRevert(f) ==
  /\ flush[f].pc = "running"
  /\ buffer' = SetStatus(buffer, flush[f].batch, "idle")
  /\ flush' = [flush EXCEPT ![f].pc = "cancelled"]
  /\ UNCHANGED <<now, blobs, extVars, apiVars>>

\* the caller cancels an in-flight flush: nothing is reverted
FlushCancel(f) ==
  /\ flush[f].pc = "running"
  /\ flush' = [flush EXCEPT ![f].pc = "cancelled"]
  /\ UNCHANGED <<buffer, now, blobs, extVars, apiVars>>

Orphaned(b) ==
  /\ b \in BufferIds
  /\ buffer[b].status = "processing"
  /\ \E f \in Flushes :
       flush[f].pc = "cancelled" /\ b \in SeqToSet(flush[f].batch)

\* the watchdog replays an orphaned row (done, or failed when the replay
\* fails) or moves it to failed after the timeout
Watchdog(b, outcome) ==
  /\ Orphaned(b)
  /\ buffer' = SetStatus(buffer, <<b>>, outcome)
  /\ UNCHANGED <<flush, now, blobs, extVars, apiVars>>

WatchdogStep == \E b \in BufferIds, o \in {"done", "failed"} : Watchdog(b, o)

(* ==================== profile store and extraction =================== *)

MaxExtracts == 2
MaxFacts == 2

Extracts == 1..MaxExtracts
Slots == {<<"work", "title">>, <<"hobby", "music">>}
Memos == {"m1", "m2"}
Null == 0

\* a fact returned by the fact-extraction call: {topic, sub_topic, memo}
Facts == [slot : Slots, memo : Memos]
FactLists == UNION {[1..n -> Facts] : n \in 1..MaxFacts}

\* what the merge call answers for a candidate whose slot has a row
Decisions == {"append", "replace", "keep", "delete"}

(* ---------------- LindormTableStorage statements ---------------------- *)

\* SELECT ... FROM user_profiles WHERE user_id = u
UserRows(rows, u) == {r \in rows : r.user_id = u}

\* add_profiles: one INSERT per (content, attributes) under a fresh
\* profile_id, committed together; no check for an existing slot
AddRows(rows, u, adds, first) ==
  rows \cup {[id |-> first + i - 1, user_id |-> u,
              content |-> adds[i].content,
              topic |-> adds[i].slot[1], sub_topic |-> adds[i].slot[2]] :
             i \in 1..Len(adds)}

\* update_profiles: UPDATE ... WHERE user_id = u AND profile_id = id for
\* each item; a row that is missing is skipped
UpdateRows(rows, u, upds) ==
  {IF r.user_id = u /\ \E x \in upds : x.id = r.id
   THEN LET x == CHOOSE y \in upds : y.id = r.id
        IN [r EXCEPT !.content = x.content]
   ELSE r : r \in rows}

\* the ids update_profiles reports (rowcount > 0)
UpdatedIds(rows, u, upds) ==
  {x.id : x \in {y \in upds : \E r \in UserRows(rows, u) : r.id = y.id}}

\* faulty variant: the DELETE has no profile_id condition
DeleteRowsOfUser(rows, u, ids) ==
  {r \in rows : r.user_id # u}

\* faulty variant: the DELETE has no user_id condition
DeleteRowsAnyUser(rows, u, ids) ==
  {r \in rows : r.id \notin ids}

\* delete_profiles: DELETE ... WHERE profile_id IN ids AND user_id = u
DeleteRows(rows, u, ids) ==
  {r \in rows : ~(r.id \in ids /\ r.user_id = u)}

(* ------------------------- merge planning ----------------------------- *)

SlotOf(r) == <<r.topic, r.sub_topic>>

\* the index by (topic, sub_topic) over the rows loaded for the user
RowsAt(before, slot) == {r \in before : SlotOf(r) = slot}

Lookup(before, slot) ==
  IF RowsAt(before, slot) = {} THEN {}
  ELSE {CHOOSE r \in RowsAt(before, slot) :
          \A q \in RowsAt(before, slot) : r.id <= q.id}

EmptyPlan == [add |-> <<>>, update |-> {}, delete |-> {}, outcomes |-> <<>>]

AddIndex(plan, slot) ==
  {i \in 1..Len(plan.add) : plan.add[i].slot = slot}

\* faulty variant: a kept candidate is still written over the row
KeepPlanRewrites(plan, r, fact) ==
  [plan EXCEPT
     !.update = {x \in plan.update : x.id # r.id} \cup
                  {[id |-> r.id, content |-> {fact.memo}]},
     !.outcomes = Append(plan.outcomes, "keep")]

\* the merge call answers keep (or an answer that is not applicable): the
\* candidate is dropped and the row is left alone
KeepPlan(plan, r, fact) ==
  [plan EXCEPT !.outcomes = Append(plan.outcomes, "keep")]

\* one candidate folded into the plan built so far
PlanFact(plan, before, fact, d, validate) ==
  LET hit == Lookup(before, fact.slot)
      out(o) == Append(plan.outcomes, o)
  IN IF AddIndex(plan, fact.slot) # {}
     THEN \* a later candidate for a slot already planned updates it in memory
          LET i == CHOOSE j \in AddIndex(plan, fact.slot) : TRUE
          IN [plan EXCEPT
                !.add[i].content = plan.add[i].content \cup {fact.memo},
                !.outcomes = out("tie")]
     ELSE IF hit = {} \/ (\E r \in hit : r.id \in plan.delete)
     THEN [plan EXCEPT
             !.add = Append(plan.add,
                            [slot |-> fact.slot, content |-> {fact.memo}]),
             !.outcomes = out("add")]
     ELSE LET r == CHOOSE q \in hit : TRUE
              pending == {x \in plan.update : x.id = r.id}
              base == IF pending = {} THEN r.content
                      ELSE (CHOOSE x \in pending : TRUE).content
              others == plan.update \ pending
          IN CASE d = "append" ->
                    [plan EXCEPT
                       !.update = others \cup
                          {[id |-> r.id, content |-> base \cup {fact.memo}]},
                       !.outcomes = out("append")]
               [] d = "replace" ->
                    [plan EXCEPT
                       !.update = others \cup
                          {[id |-> r.id, content |-> {fact.memo}]},
                       !.outcomes = out("replace")]
               [] d = "delete" /\ validate ->
                    [plan EXCEPT
                       !.update = others,
                       !.delete = plan.delete \cup {r.id},
                       !.outcomes = out("delete")]
               [] OTHER -> KeepPlan(plan, r, fact)

\* the merge plan of a batch: the candidates in chronological order
RECURSIVE MergePlan(_, _, _, _, _)
MergePlan(plan, before, facts, ds, validate) ==
  IF facts = <<>> THEN plan
  ELSE MergePlan(PlanFact(plan, before, Head(facts), Head(ds), validate),
                 before, Tail(facts), Tail(ds), validate)

(* ------------------------------ facade -------------------------------- *)

\* faulty variant: a result without an event is turned into a failure
FacadeNeedsEvent(promise) ==
  IF promise.ok /\ promise.event_id # Null THEN "ok" ELSE "error"

\* faulty variant: a rejected promise is returned like a result
FacadeSwallows(promise) == "ok"

\* extract_memories: result.ok() -> return result.data(),
\* otherwise raise LindormMemobaseError
FacadeResult(promise) == IF promise.ok THEN "ok" ELSE "error"

(* ----------------------- extract_memories calls ----------------------- *)

NewExtract ==
  [pc |-> "new", user_id |-> "u1", facts |-> <<>>, before |-> {},
   plan |-> EmptyPlan, applied |-> <<>>, result |-> "none",
   event_id |-> Null, repeatOf |-> Null]

\* the store already holds a row of another user, in a slot the extracting
\* user will also fill
OtherUserRow ==
  [id |-> 1, user_id |-> "u2", content |-> {"m1"},
   topic |-> "work", sub_topic |-> "title"]

InitExtractVars ==
  /\ profiles = {OtherUserRow}
  /\ nextPid = 2
  /\ events = {}
  /\ ext = [e \in Extracts |-> NewExtract]
  /\ lastExt = Null

InFlight(e) == ext[e].pc \in {"planned", "deleted", "updated", "added"}

\* stages 2-4: the facts come back from the model, the user's rows are
\* loaded and the merge plan is computed from that snapshot
ExtractPlan(e, u, facts, ds) ==
  /\ ext[e].pc = "new"
  /\ \A g \in Extracts : g < e => ext[g].pc # "new"  \* calls numbered by start
  /\ LET before == UserRows(profiles, u)
         alone == \A g \in Extracts : ~InFlight(g)
         rep == IF /\ alone
                   /\ lastExt # Null
                   /\ ext[lastExt].result = "ok"
                   /\ ext[lastExt].user_id = u
                   /\ ext[lastExt].facts = facts
                THEN lastExt ELSE Null
     IN ext' = [g \in Extracts |->
                 IF g = e
                 THEN [ext[e] EXCEPT
                         !.pc = "planned", !.user_id = u, !.facts = facts,
                         !.before = before,
                         !.plan = MergePlan(EmptyPlan, before, facts, ds,
                                            validate_mode),
                         !.repeatOf = rep]
                 ELSE [ext[g] EXCEPT !.repeatOf =
                         IF InFlight(g) THEN Null ELSE @]]
  /\ UNCHANGED <<profiles, nextPid, events, lastExt, validate_mode, bufVars, apiVars>>

\* a stage whose storage call keeps failing: the pipeline stops, the
\* promise is rejected and the facade raises
StageFails(e, at) ==
  /\ ext[e].pc = at
  /\ ext' = [ext EXCEPT ![e].pc = "failed",
                        ![e].result = FacadeResult([ok |-> FALSE,
                                                    event_id |-> Null])]
  /\ lastExt' = e
  /\ UNCHANGED <<profiles, nextPid, events, validate_mode, bufVars, apiVars>>

\* stage 5, first step: the plan's deletes
ApplyDelete(e) ==
  /\ ext[e].pc = "planned"
  /\ profiles' = DeleteRows(profiles, ext[e].user_id, ext[e].plan.delete)
  /\ ext' = [ext EXCEPT ![e].pc = "deleted",
                        ![e].applied = Append(@, "delete")]
  /\ UNCHANGED <<nextPid, events, lastExt, validate_mode, bufVars, apiVars>>

ApplyDeleteFails(e) ==
  /\ ext[e].plan.delete # {}
  /\ StageFails(e, "planned")

\* stage 5, second step: the plan's updates
ApplyUpdate(e) ==
  /\ ext[e].pc = "deleted"
  /\ profiles' = UpdateRows(profiles, ext[e].user_id, ext[e].plan.update)
  /\ ext' = [ext EXCEPT ![e].pc = "updated",
                        ![e].applied = Append(@, "update")]
  /\ UNCHANGED <<nextPid, events, lastExt, validate_mode, bufVars, apiVars>>

ApplyUpdateFails(e) ==
  /\ ext[e].plan.update # {}
  /\ StageFails(e, "deleted")

\* stage 5, third step: the plan's adds
ApplyAdd(e) ==
  /\ ext[e].pc = "updated"
  /\ profiles' = AddRows(profiles, ext[e].user_id, ext[e].plan.add, nextPid)
  /\ nextPid' = nextPid + Len(ext[e].plan.add)
  /\ ext' = [ext EXCEPT ![e].pc = "added",
                        ![e].applied = Append(@, "add")]
  /\ UNCHANGED <<events, lastExt, validate_mode, bufVars, apiVars>>

ApplyAddFails(e) ==
  /\ ext[e].plan.add # <<>>
  /\ StageFails(e, "updated")

\* stage 6: summary, gists and the event record; best effort
EventSynthesis(e, ok) ==
  /\ ext[e].pc = "added"
  /\ LET eid == IF ok THEN Cardinality(events) + 1 ELSE Null
     IN /\ events' = IF ok
                     THEN events \cup {[event_id |-> eid,
                                        user_id |-> ext[e].user_id]}
                     ELSE events
        /\ ext' = [ext EXCEPT
                     ![e].pc = "returned",
                     ![e].applied = IF ok THEN Append(@, "event") ELSE @,
                     ![e].event_id = eid,
                     ![e].result = FacadeResult([ok |-> TRUE,
                                                 event_id |-> eid])]
  /\ lastExt' = e
  /\ UNCHANGED <<profiles, nextPid, validate_mode, bufVars, apiVars>>

InitExtract ==
  /\ InitBufferVars
  /\ InitExtractVars
  /\ validate_mode \in BOOLEAN
  /\ InitApiVars

NextExtract ==
  \/ \E e \in Extracts, u \in ExtractUsers, facts \in FactLists :
        \E ds \in [1..Len(facts) -> Decisions] : ExtractPlan(e, u, facts, ds)
  \/ \E e \in Extracts : ApplyDelete(e)
  \/ \E e \in Extracts : ApplyDeleteFails(e)
  \/ \E e \in Extracts : ApplyUpdate(e)
  \/ \E e \in Extracts : ApplyUpdateFails(e)
  \/ \E e \in Extracts : ApplyAdd(e)
  \/ \E e \in Extracts : ApplyAddFails(e)
  \/ \E e \in Extracts, ok \in BOOLEAN : EventSynthesis(e, ok)

SpecExtract == InitExtract /\ [][NextExtract]_vars

(* ========================= event gist search ========================== *)

MaxGists == 2

GistIds == 1..Len(gists)
GistUsers == {"u1", "u2"}
SearchUsers == {"u1"}

\* the value 1 of "1 - cosine_distance", in the units of the model
SimilarityOne == 2
Distances == 0..SimilarityOne
Thresholds == {0, 1}
TopKs == {1, 2}
Windows == {1, 2}

\* 1 - UserEventGist.embedding.cosine_distance(query_embedding)
similarity_expr(g) == SimilarityOne - gists[g].distance

\* func.now() - timedelta(days = time_range_in_days)
time_cutoff(window) == now - window

\* a deferred result: Promise.resolve(data) / Promise.reject(code, msg)
Resolve(data) == [ok |-> TRUE, code |-> "OK", data |-> data]
Reject(code) == [ok |-> FALSE, code |-> code, data |-> <<>>]

\* the sequences that list every element of S once
RECURSIVE Orderings(_)
Orderings(S) ==
  IF S = {} THEN {<<>>}
  ELSE UNION {{<<x>> \o r : r \in Orderings(S \ {x})} : x \in S}

\* .limit(topk)
Limit(r, topk) == IF Len(r) <= topk THEN r ELSE SubSeq(r, 1, topk)

\* faulty variant: the rows of every user
RecentRowsAnyUser(u, window) ==
  {g \in GistIds : gists[g].created_at > time_cutoff(window)}

\* the rows of get_user_event_gists: filter_by(user_id), created_at > cutoff
RecentRows(u, window) ==
  {g \in GistIds : /\ gists[g].user_id = u
                   /\ gists[g].created_at > time_cutoff(window)}

\* faulty variant: the rows come back oldest first
get_user_event_gists_asc(u, topk, window) ==
  {Resolve(Limit(r, topk)) :
     r \in {o \in Orderings(RecentRows(u, window)) :
              \A i, j \in 1..Len(o) :
                 i < j => gists[o[i]].created_at <= gists[o[j]].created_at}}

\* get_user_event_gists: order_by(created_at.desc()).limit(topk); rows of
\* equal created_at come in any order
get_user_event_gists(u, topk, window) ==
  {Resolve(Limit(r, topk)) :
     r \in {o \in Orderings(RecentRows(u, window)) :
              \A i, j \in 1..Len(o) :
                 i < j => gists[o[i]].created_at >= gists[o[j]].created_at}}

\* the WHERE clause of search_user_event_gists
SearchRows(u, threshold, window) ==
  {g \in GistIds : /\ gists[g].user_id = u
                   /\ gists[g].created_at > time_cutoff(window)
                   /\ gists[g].has_embedding
                   /\ similarity_expr(g) > threshold}

\* order_by(desc("similarity")).limit(topk); rows of equal similarity come
\* in any order
SearchStatement(u, topk, threshold, window) ==
  {Limit(r, topk) :
     r \in {o \in Orderings(SearchRows(u, threshold, window)) :
              \A i, j \in 1..Len(o) :
                 i < j => similarity_expr(o[i]) >= similarity_expr(o[j])}}

\* search_user_event_gists: the possible results; embedded tells whether
\* get_embedding was called
search_user_event_gists(u, enabled, embed_ok, topk, threshold, window) ==
  IF ~enabled
  THEN {[ok |-> FALSE, code |-> "NOT_IMPLEMENTED", data |-> <<>>,
         embedded |-> FALSE]}
  ELSE IF ~embed_ok
  THEN {[ok |-> FALSE, code |-> "SERVICE_UNAVAILABLE", data |-> <<>>,
         embedded |-> TRUE]}
  ELSE {[ok |-> TRUE, code |-> "OK", data |-> r, embedded |-> TRUE] :
          r \in SearchStatement(u, topk, threshold, window)}

(* ------------------- calls between the source files ------------------- *)

\* a Python call by keyword: it raises TypeError when a keyword is no
\* parameter of the function or a parameter without default gets no value
Bind(params, required, given) == given \subseteq params /\ required \subseteq given

\* def search_user_event_gists(user_id, query, global_config, topk = 10,
\*                             similarity_threshold = 0.2, time_range_in_days = 21)
SearchParams ==
  {"user_id", "query", "global_config", "topk", "similarity_threshold",
   "time_range_in_days"}
SearchRequired == {"user_id", "query", "global_config"}

\* def get_user_event_gists(user_id, topk = 10, time_range_in_days = 21)
RecentParams == {"user_id", "topk", "time_range_in_days"}
RecentRequired == {"user_id"}

\* the keywords LindormMemobase.search_events passes on
SearchEventsKeywords ==
  {"user_id", "query", "config", "topk", "similarity_threshold",
   "time_range_in_days"}

\* the keywords LindormMemobase.get_events passes on
GetEventsKeywords == {"user_id", "config", "topk", "time_range_in_days"}

\* what get_user_event_gists_data passes to search_user_event_gists
DataSearchKeywords ==
  {"user_id", "query", "topk", "similarity_threshold", "time_range_in_days"}

\* what get_user_event_gists_data passes to get_user_event_gists
DataRecentKeywords == {"user_id", "topk", "time_range_in_days"}

\* the facade turns a rejected promise or an exception into
\* LindormMemobaseError (cause: what it wraps) and a resolved promise into
\* the list of events
FacadeList(p) ==
  IF p.ok THEN [ok |-> TRUE, cause |-> "none", data |-> p.data]
  ELSE [ok |-> FALSE, cause |-> p.code, data |-> <<>>]

FacadeTypeError == [ok |-> FALSE, cause |-> "TypeError", data |-> <<>>]

\* LindormMemobase.search_events: the possible outcomes, each with whether
\* get_embedding was called
search_events(u, enabled, embed_ok, limit, threshold, window) ==
  IF ~Bind(SearchParams, SearchRequired, SearchEventsKeywords)
  THEN {[out |-> FacadeTypeError, embedded |-> FALSE]}
  ELSE {[out |-> FacadeList(p), embedded |-> p.embedded] :
          p \in search_user_event_gists(u, enabled, embed_ok, limit,
                                        threshold, window)}

\* LindormMemobase.get_events
get_events(u, limit, window) ==
  IF ~Bind(RecentParams, RecentRequired, GetEventsKeywords)
  THEN {FacadeTypeError}
  ELSE {FacadeList(p) : p \in get_user_event_gists(u, limit, window)}

\* topk = 60 in both calls of get_user_event_gists_data
DataTopk == 60

\* get_user_event_gists_data: vector search when there is a chat tail and
\* embeddings are enabled, the recent gists otherwise; raised tells that the
\* call ended with an exception instead of a promise
get_user_event_gists_data(u, has_chats, enabled, embed_ok, threshold, window) ==
  IF has_chats /\ enabled
  THEN IF ~Bind(SearchParams, SearchRequired, DataSearchKeywords)
       THEN {[ok |-> FALSE, code |-> "TypeError", data |-> <<>>,
              raised |-> TRUE, via |-> "search"]}
       ELSE {[ok |-> p.ok, code |-> p.code, data |-> p.data,
              raised |-> FALSE, via |-> "search"] :
               p \in search_user_event_gists(u, enabled, embed_ok, DataTopk,
                                             threshold, window)}
  ELSE IF ~Bind(RecentParams, RecentRequired, DataRecentKeywords)
       THEN {[ok |-> FALSE, code |-> "TypeError", data |-> <<>>,
              raised |-> TRUE, via |-> "recent"]}
       ELSE {[ok |-> p.ok, code |-> p.code, data |-> p.data,
              raised |-> FALSE, via |-> "recent"] :
               p \in get_user_event_gists(u, DataTopk, window)}

(* ------------------------- context assembly --------------------------- *)

\* token counts of gist contents and of profile rows
MaxGistTokens == 1
GistTokens == 1..MaxGistTokens
CandidateSets == {<<1, 2>>}
MaxTokenSizes == {0, 2}

\* profile_event_ratio = 0.6, the default of get_conversation_context
RatioNum == 6
RatioDen == 10

RECURSIVE SumSeq(_)
SumSeq(q) == IF q = <<>> THEN 0 ELSE Head(q) + SumSeq(Tail(q))

\* the longest prefix of q whose sizes add up to at most budget: the loop
\* stops at the first element that would exceed it
RECURSIVE TakeWithin(_, _, _)
TakeWithin(q, size, budget) ==
  IF q = <<>> \/ size[1] > budget THEN <<>>
  ELSE <<Head(q)>> \o TakeWithin(Tail(q), Tail(size), budget - size[1])

\* max_token_size = None
NoLimit == -1

\* faulty variant of the loop: a gist that does not fit is passed over and
\* a later, smaller one is still taken
RECURSIVE TakeFitting(_, _, _)
TakeFitting(q, size, budget) ==
  IF q = <<>> THEN <<>>
  ELSE IF size[1] > budget THEN TakeFitting(Tail(q), Tail(size), budget)
  ELSE <<Head(q)>> \o TakeFitting(Tail(q), Tail(size), budget - size[1])

truncate_event_gists_skipping(ids, max_token_size) ==
  IF max_token_size = NoLimit THEN ids
  ELSE TakeFitting(ids, [i \in 1..Len(ids) |-> gists[ids[i]].tokens],
                   max_token_size)

\* truncate_event_gists: every gist when max_token_size is None; otherwise
\* c_tokens accumulates and the loop breaks at the first gist that takes it
\* above max_token_size
truncate_event_gists(ids, max_token_size) ==
  IF max_token_size = NoLimit THEN ids
  ELSE TakeWithin(ids, [i \in 1..Len(ids) |-> gists[ids[i]].tokens],
                  max_token_size)

\* stage 1 of the assembler: token-budget truncation of the candidate rows
profile_budget(max_token_size) == (max_token_size * RatioNum) \div RatioDen

TruncateProfiles(cand, max_token_size) ==
  TakeWithin(cand, cand, profile_budget(max_token_size))

\* stage 2: the LLM filter runs when the tail is not empty and the option
\* full_profile_and_only_search_event is off; a failed filter leaves the
\* candidates as they were
FilterOutcomes == {"off", "failed", "first"}

\* faulty variant: a failed filter drops every candidate
FilterProfilesDrops(cand, has_chats, filter) ==
  IF has_chats /\ filter = "first" /\ cand # <<>> THEN <<Head(cand)>>
  ELSE IF has_chats /\ filter = "failed" THEN <<>> ELSE cand

FilterProfiles(cand, has_chats, filter) ==
  IF has_chats /\ filter = "first" /\ cand # <<>> THEN <<Head(cand)>> ELSE cand

\* stage 4: with fill_window_with_events the budget left is filled with
\* further gists by recency; a failed gap-fill gives no events
FillOutcomes == {"off", "ok", "failed"}

GapFill(u, evs, fill, event_budget, window) ==
  IF fill = "off" THEN {evs}
  ELSE IF fill = "failed" THEN {<<>>}
  ELSE {truncate_event_gists(
          evs \o SelectSeq(r.data, LAMBDA g : \A i \in 1..Len(evs) : evs[i] # g),
          event_budget) : r \in get_user_event_gists(u, DataTopk, window)}

\* stages 3 and 4: the events of get_user_event_gists_data cut to the event
\* budget, then the gap-fill; a failed search gives no events
EventSection(u, d, fill, event_budget, window) ==
  IF d.ok
  THEN GapFill(u, truncate_event_gists(d.data, event_budget), fill,
               event_budget, window)
  ELSE {<<>>}

\* get_user_context: the profile read is the one stage whose failure fails
\* the retrieval
get_user_context(u, profile_ok, cand, max_token_size, has_chats, filter, enabled, embed_ok, threshold, window, fill) ==
  IF ~profile_ok
  THEN {[ok |-> FALSE, code |-> "SERVICE_UNAVAILABLE", profiles |-> <<>>,
         events |-> <<>>, via |-> "none", searched |-> FALSE]}
  ELSE LET use == FilterProfiles(TruncateProfiles(cand, max_token_size),
                                 has_chats, filter)
           event_budget == max_token_size - SumSeq(use)
       IN  UNION {{[ok |-> TRUE, code |-> "OK", profiles |-> use,
                    events |-> e, via |-> d.via, searched |-> d.ok] :
                     e \in EventSection(u, d, fill, event_budget, window)} :
                  d \in get_user_event_gists_data(u, has_chats, enabled,
                                                  embed_ok, threshold, window)}

\* LindormMemobase.get_conversation_context: a rejected promise is raised as
\* LindormMemobaseError, a resolved one gives the context
FacadeContext(p) ==
  IF p.ok THEN [ok |-> TRUE, cause |-> "none", profiles |-> p.profiles,
                events |-> p.events, via |-> p.via, searched |-> p.searched]
  ELSE [ok |-> FALSE, cause |-> p.code, profiles |-> <<>>, events |-> <<>>,
        via |-> p.via, searched |-> p.searched]

get_conversation_context(u, profile_ok, cand, max_token_size, has_chats, filter, enabled, embed_ok, threshold, window, fill) ==
  {FacadeContext(p) :
     p \in get_user_context(u, profile_ok, cand, max_token_size, has_chats,
                            filter, enabled, embed_ok, threshold, window, fill)}

(* ------------------------------ actions ------------------------------- *)

\* a client makes one call at a time and reads its result before anything
\* else happens, so a result is always seen next to the store it came from
Idle == call = NoCall

ReadResult ==
  /\ ~Idle
  /\ call' = NoCall
  /\ UNCHANGED <<bufVars, extVars, gists, enable_event_embedding, appVars>>

\* put_gist: one more gist, stamped with the current time; distance is the
\* cosine distance of its embedding to the query of the searches, tokens the
\* token count of its content
PutGist(u, d, e, t) ==
  /\ Idle
  /\ Len(gists) < MaxGists
  /\ gists' = Append(gists, [user_id |-> u, created_at |-> now,
                             distance |-> d, has_embedding |-> e,
                             tokens |-> t])
  /\ UNCHANGED <<bufVars, extVars, enable_event_embedding, call, appVars>>

SearchGists(u, embed_ok, topk, threshold, window) ==
  /\ Idle
  /\ \E p \in search_user_event_gists(u, enable_event_embedding, embed_ok,
                                      topk, threshold, window) :
       call' = [op |-> "search_gists", user_id |-> u, topk |-> topk,
                threshold |-> threshold, window |-> window, result |-> p]
  /\ UNCHANGED <<bufVars, extVars, gists, enable_event_embedding, appVars>>

RecentGists(u, topk, window) ==
  /\ Idle
  /\ \E p \in get_user_event_gists(u, topk, window) :
       call' = [op |-> "recent_gists", user_id |-> u, topk |-> topk,
                window |-> window, result |-> p]
  /\ UNCHANGED <<bufVars, extVars, gists, enable_event_embedding, appVars>>

SearchEvents(u, embed_ok, limit, threshold, window) ==
  /\ Idle
  /\ \E r \in search_events(u, enable_event_embedding, embed_ok, limit,
                            threshold, window) :
       call' = [op |-> "search_events", user_id |-> u, topk |-> limit,
                threshold |-> threshold, window |-> window,
                result |-> r.out, embedded |-> r.embedded]
  /\ UNCHANGED <<bufVars, extVars, gists, enable_event_embedding, appVars>>

GetEvents(u, limit, window) ==
  /\ Idle
  /\ \E r \in get_events(u, limit, window) :
       call' = [op |-> "get_events", user_id |-> u, topk |-> limit,
                window |-> window, result |-> r]
  /\ UNCHANGED <<bufVars, extVars, gists, enable_event_embedding, appVars>>

(* ====================== gateway calls and retries ===================== *)

\* the calls one operation can make: the outcome of each is drawn in advance
MaxCalls == 3
Schedules(S) == [1..MaxCalls -> S]

\* what the provider does with a completion request: well-formed JSON,
\* text that is no JSON, or a transport error
ProviderOutcomes == {"json", "garbage", "unavailable"}

\* what the storage does with a read: the rows, or an error
StorageOutcomes == {"rows", "unavailable"}

\* the provider adapters registered by name, and the values of llm_style
FACTORIES == {"openai", "doubao_cache"}
LlmStyles == {"openai", "unregistered"}

\* faulty variant: the response is returned as it came, parsed or not
llm_complete_unparsed(llm_style, json_mode, outcome) ==
  IF llm_style \notin FACTORIES \/ outcome = "unavailable"
  THEN Reject("SERVICE_UNAVAILABLE")
  ELSE Resolve(outcome)

\* llm_complete: any exception of the FACTORIES lookup or of the provider
\* call is rejected as SERVICE_UNAVAILABLE; in json_mode a response that
\* does not parse is rejected as UNPROCESSABLE_ENTITY
llm_complete(llm_style, json_mode, outcome) ==
  IF llm_style \notin FACTORIES \/ outcome = "unavailable"
  THEN Reject("SERVICE_UNAVAILABLE")
  ELSE IF ~json_mode THEN Resolve(outcome)
  ELSE IF outcome = "json" THEN Resolve(outcome)
  ELSE Reject("UNPROCESSABLE_ENTITY")

\* LindormMemobase.__init__ with a Config passed in: the object is stored
\* as it is
LindormMemobaseInit(llm_style) == "constructed"

\* the LLM call of a pipeline stage: a SERVICE_UNAVAILABLE answer is retried
\* once, a response that does not parse gets one reformat retry, and what
\* the last attempt answers is the stage's result
RECURSIVE StageCall(_, _, _, _, _)
StageCall(llm_style, sched, i, retried, reformatted) ==
  LET p == llm_complete(llm_style, TRUE, sched[i])
  IN IF p.ok THEN [ok |-> TRUE, code |-> "OK", attempts |-> i]
     ELSE IF p.code = "SERVICE_UNAVAILABLE" /\ ~retried
     THEN StageCall(llm_style, sched, i + 1, TRUE, reformatted)
     ELSE IF p.code = "UNPROCESSABLE_ENTITY" /\ ~reformatted
     THEN StageCall(llm_style, sched, i + 1, retried, TRUE)
     ELSE [ok |-> FALSE, code |-> p.code, attempts |-> i]

process_blobs_llm(llm_style, sched) ==
  StageCall(llm_style, sched, 1, FALSE, FALSE)

\* LindormTableStorage.get_user_profiles and its module-level wrapper: an
\* exception of the query is rejected as SERVER_PROCESS_ERROR
storage_get_user_profiles(outcome) ==
  IF outcome = "rows" THEN Resolve(outcome) ELSE Reject("SERVER_PROCESS_ERROR")

\* LindormMemobase.get_user_profiles: one storage read; a rejected promise
\* is raised as LindormMemobaseError
get_user_profiles(sched) ==
  LET p == storage_get_user_profiles(sched[1])
  IN [ok |-> p.ok, cause |-> IF p.ok THEN "none" ELSE p.code, attempts |-> 1]

(* ------------------------------ actions ------------------------------- *)

\* flush step 4 with the pipeline's LLM exchange spelled out: the rows of
\* the batch become done when the stage call succeeds and failed when it
\* does not
FlushPipeline(f, llm_style, sched) ==
  /\ flush[f].pc = "running"
  /\ LET p == process_blobs_llm(llm_style, sched)
     IN /\ buffer' = SetStatus(buffer, flush[f].batch,
                               IF p.ok THEN "done" ELSE "failed")
        /\ flush' = [flush EXCEPT ![f].pc = IF p.ok THEN "ok" ELSE "raised"]
        /\ call' = [op |-> "process_blobs", flush |-> f,
                    llm_style |-> llm_style, sched |-> sched, result |-> p]
  /\ UNCHANGED <<now, blobs, extVars, gists, enable_event_embedding, appVars>>

LlmComplete(llm_style, json_mode, outcome) ==
  /\ Idle
  /\ call' = [op |-> "llm_complete", llm_style |-> llm_style,
              json_mode |-> json_mode, outcome |-> outcome,
              facade |-> LindormMemobaseInit(llm_style),
              result |-> llm_complete(llm_style, json_mode, outcome)]
  /\ UNCHANGED <<bufVars, extVars, gists, enable_event_embedding, appVars>>

GetUserProfiles(u, sched) ==
  /\ Idle
  /\ call' = [op |-> "get_user_profiles", user_id |-> u, sched |-> sched,
              result |-> get_user_profiles(sched)]
  /\ UNCHANGED <<bufVars, extVars, gists, enable_event_embedding, appVars>>

(* ----------------------- truncation of a gist list -------------------- *)

MaxTruncateGists == 3
MaxTruncateTokens == 3

\* the lists handed to truncate_event_gists and the limits they are cut to
TruncateStores ==
  UNION {[1..n -> [user_id : {"u1"}, created_at : {0}, distance : {Null},
                   has_embedding : {FALSE}, tokens : 1..MaxTruncateTokens]] :
         n \in 0..MaxTruncateGists}
TruncateLimits == {NoLimit} \cup (0..(MaxTruncateTokens + 1))

TruncateEventGists(max_token_size) ==
  /\ Idle
  /\ LET ids == [i \in 1..Len(gists) |-> i]
     IN call' = [op |-> "truncate_event_gists", events |-> ids,
                 max_token_size |-> max_token_size,
                 result |-> Resolve(truncate_event_gists(ids, max_token_size))]
  /\ UNCHANGED <<bufVars, extVars, gists, enable_event_embedding, appVars>>

(* ======================== profile store calls ========================= *)

MaxProfiles == 2

\* the Config objects facades are bound to, named by the database they
\* point at
Configs == {"dbA", "dbB"}
StoreUsers == {"u1", "u2"}
ProfileIds == 1..MaxProfiles

\* attributes = None in an update item
NoAttributes == <<>>

\* _get_mysql_storage(config): the module keeps the first storage object it
\* built and hands it to every later caller
get_mysql_storage(config) ==
  IF mysql_storage = NoStorage THEN config ELSE mysql_storage

\* the user_profiles table of one database
StoreRows(db) == {r \in profiles : r.db = db}

\* add_profiles: zip(profiles, attributes_list), one INSERT each under a
\* fresh profile_id with created_at = updated_at = now; the ids are returned
add_profiles(rows, db, u, contents, attributes_list, first, t) ==
  LET n == IF Len(contents) <= Len(attributes_list) THEN Len(contents)
           ELSE Len(attributes_list)
  IN [ok |-> TRUE,
      rows |-> rows \cup
               {[db |-> db, user_id |-> u, id |-> first + i - 1,
                 content |-> contents[i], topic |-> attributes_list[i][1],
                 sub_topic |-> attributes_list[i][2], updated_at |-> t] :
                i \in 1..n},
      data |-> [i \in 1..n |-> first + i - 1]]

\* faulty variant: the UPDATE has no user_id in its WHERE clause
UpdateOneAnyUser(rows, u, item, t) ==
  {IF r.id = item.id
   THEN [r EXCEPT !.content = item.content, !.updated_at = t]
   ELSE r : r \in rows}

\* one UPDATE ... WHERE user_id = u AND profile_id = id: content and
\* updated_at always, attributes when they are not None
UpdateOne(rows, u, item, t) ==
  {IF r.user_id = u /\ r.id = item.id
   THEN IF item.attributes # NoAttributes
        THEN [r EXCEPT !.content = item.content,
                       !.topic = item.attributes[1],
                       !.sub_topic = item.attributes[2],
                       !.updated_at = t]
        ELSE [r EXCEPT !.content = item.content, !.updated_at = t]
   ELSE r : r \in rows}

\* cursor.rowcount > 0
Matched(rows, u, item) ==
  \E r \in rows : r.user_id = u /\ r.id = item.id

\* update_profiles: the items of zip(profile_ids, contents, attributes_list)
\* in order; an id is reported when its statement matched a row
RECURSIVE update_profiles(_, _, _, _)
update_profiles(rows, u, items, t) ==
  IF items = <<>> THEN [ok |-> TRUE, rows |-> rows, data |-> <<>>]
  ELSE LET rest == update_profiles(UpdateOne(rows, u, Head(items), t), u,
                                   Tail(items), t)
       IN [rest EXCEPT !.data =
             IF Matched(rows, u, Head(items)) THEN <<Head(items).id>> \o @
             ELSE @]

\* delete_profiles: DELETE ... WHERE profile_id IN (ids) AND user_id = u; the
\* statement of an empty id list is not valid SQL and the call is rejected
delete_profiles(rows, u, ids) ==
  IF ids = {} THEN [ok |-> FALSE, rows |-> rows, data |-> 0]
  ELSE [ok |-> TRUE, rows |-> DeleteRows(rows, u, ids),
        data |-> Cardinality(rows \ DeleteRows(rows, u, ids))]

\* LindormTableStorage.get_user_profiles: SELECT ... WHERE user_id = u
\* ORDER BY updated_at DESC; rows of equal updated_at come in any order
select_user_profiles(rows, u) ==
  {o \in Orderings(UserRows(rows, u)) :
     \A i, j \in 1..Len(o) : i < j => o[i].updated_at >= o[j].updated_at}

\* the loop of LindormMemobase.get_user_profiles over the rows read:
\* topic_groups[topic][subtopic] = ProfileEntry(content), a later row of the
\* same slot replacing the entry of an earlier one
RECURSIVE topic_groups(_, _, _)
topic_groups(q, topics, groups) ==
  IF q = <<>> THEN groups
  ELSE LET r == Head(q)
       IN IF topics # {} /\ r.topic \notin topics
          THEN topic_groups(Tail(q), topics, groups)
          ELSE topic_groups(Tail(q), topics,
                 {g \in groups : g.slot # SlotOf(r)}
                   \cup {[slot |-> SlotOf(r), content |-> r.content]})

\* faulty variant: the whitelist only, no preferred group
ProfileCandidatesUnordered(q, only_topics, prefer_topics) ==
  IF only_topics = <<>> THEN q
  ELSE SelectSeq(q, LAMBDA r : r.topic \in only_topics[1])

\* the profile candidate set of the assembler: the only_topics whitelist
\* when given (<<S>>; <<>> when not), then the rows of prefer_topics first,
\* each group in the order the rows were read
ProfileCandidates(q, only_topics, prefer_topics) ==
  LET kept == IF only_topics = <<>> THEN q
              ELSE SelectSeq(q, LAMBDA r : r.topic \in only_topics[1])
  IN SelectSeq(kept, LAMBDA r : r.topic \in prefer_topics)
       \o SelectSeq(kept, LAMBDA r : r.topic \notin prefer_topics)

(* ------------------------------ actions ------------------------------- *)

\* the inputs of the calls
Topics == {s[1] : s \in Slots}
ContentLists == UNION {[1..n -> Memos] : n \in 1..MaxProfiles}
UpdateItems == [id : ProfileIds, content : {"m3"},
                attributes : {NoAttributes, <<"hobby", "music">>}]
UpdateLists == UNION {[1..n -> UpdateItems] : n \in 1..MaxProfiles}

AddProfiles(config, u, contents, attributes_list) ==
  /\ Idle
  /\ nextPid + Len(contents) - 1 <= MaxProfiles
  /\ LET db == get_mysql_storage(config)
         p == add_profiles(StoreRows(db), db, u, contents, attributes_list,
                           nextPid, now)
     IN /\ mysql_storage' = db
        /\ profiles' = (profiles \ StoreRows(db)) \cup p.rows
        /\ nextPid' = nextPid + Len(p.data)
        /\ call' = [op |-> "add_profiles", config |-> config, user_id |-> u,
                    result |-> [ok |-> p.ok, data |-> p.data]]
  /\ UNCHANGED <<bufVars, events, ext, lastExt, validate_mode, gists,
                 enable_event_embedding, bot>>

UpdateProfiles(config, u, items) ==
  /\ Idle
  /\ LET db == get_mysql_storage(config)
         p == update_profiles(StoreRows(db), u, items, now)
     IN /\ mysql_storage' = db
        /\ profiles' = (profiles \ StoreRows(db)) \cup p.rows
        /\ call' = [op |-> "update_profiles", config |-> config,
                    user_id |-> u, items |-> items,
                    result |-> [ok |-> p.ok, data |-> p.data]]
  /\ UNCHANGED <<bufVars, nextPid, events, ext, lastExt, validate_mode, gists,
                 enable_event_embedding, bot>>

DeleteProfiles(config, u, ids) ==
  /\ Idle
  /\ LET db == get_mysql_storage(config)
         p == delete_profiles(StoreRows(db), u, ids)
     IN /\ mysql_storage' = db
        /\ profiles' = (profiles \ StoreRows(db)) \cup p.rows
        /\ call' = [op |-> "delete_profiles", config |-> config,
                    user_id |-> u, ids |-> ids,
                    result |-> [ok |-> p.ok, data |-> p.data]]
  /\ UNCHANGED <<bufVars, nextPid, events, ext, lastExt, validate_mode, gists,
                 enable_event_embedding, bot>>

\* the facade's get_user_profiles(user_id, topics) on the rows the storage
\* returns
ReadProfiles(config, u, topics) ==
  /\ Idle
  /\ LET db == get_mysql_storage(config)
     IN /\ mysql_storage' = db
        /\ \E q \in select_user_profiles(StoreRows(db), u) :
             call' = [op |-> "get_user_profiles", config |-> config,
                      user_id |-> u, topics |-> topics, rows |-> q,
                      result |-> [ok |-> TRUE,
                                  data |-> topic_groups(q, topics, {})]]
  /\ UNCHANGED <<bufVars, extVars, gists, enable_event_embedding, bot>>

\* the candidate set the assembler builds from the rows read
ReadCandidates(config, u, only_topics, prefer_topics) ==
  /\ Idle
  /\ LET db == get_mysql_storage(config)
     IN /\ mysql_storage' = db
        /\ \E q \in select_user_profiles(StoreRows(db), u) :
             call' = [op |-> "profile_candidates", config |-> config,
                      user_id |-> u, only_topics |-> only_topics,
                      prefer_topics |-> prefer_topics, rows |-> q,
                      result |-> [ok |-> TRUE,
                                  data |-> ProfileCandidates(q, only_topics,
                                                             prefer_topics)]]
  /\ UNCHANGED <<bufVars, extVars, gists, enable_event_embedding, bot>>

(* ================== chatbot: background extraction ==================== *)

MaxBatches == 3
BatchIds == 1..MaxBatches

\* MemoryChatbot.__init__: an empty unbounded asyncio.Queue, no worker task.
\* queue: the batches waiting; unfinished: the queue's count of items put and
\* not yet marked by task_done; worker: the position of the worker task;
\* batch: the batch the worker holds; queued: the batches put so far;
\* extracted: the batches whose _extract_memories_from_batch returned;
\* issues: those of them for which it returned False;
\* done: the batches task_done was called for
NewBot ==
  [pc |-> "new", queue |-> <<>>, unfinished |-> 0, worker |-> "none",
   batch |-> Null, queued |-> 0, extracted |-> {}, issues |-> {},
   done |-> {}]

restVars == <<bufVars, extVars, gists, enable_event_embedding, call,
              mysql_storage>>

\* chat_loop: start_memory_worker creates the worker task, which waits in
\* queue.get()
StartMemoryWorker ==
  /\ bot.pc = "new"
  /\ bot' = [bot EXCEPT !.pc = "chat", !.worker = "waiting"]
  /\ UNCHANGED restVars

\* a chat turn that fills a batch: queue_memory_extraction, put_nowait
QueueMemoryExtraction ==
  /\ bot.pc = "chat"
  /\ bot.queued < MaxBatches
  /\ bot' = [bot EXCEPT !.queue = Append(@, bot.queued + 1),
                        !.queued = @ + 1,
                        !.unfinished = @ + 1]
  /\ UNCHANGED restVars

\* the worker runs while the chat turn awaits: queue.get() returns a batch
WorkerGet ==
  /\ bot.pc = "chat"
  /\ bot.worker = "waiting"
  /\ bot.queue # <<>>
  /\ bot' = [bot EXCEPT !.worker = "extracting", !.batch = Head(bot.queue),
                        !.queue = Tail(@)]
  /\ UNCHANGED restVars

\* _extract_memories_from_batch returns (True or False); finally: task_done
WorkerExtract(success) ==
  /\ bot.pc = "chat"
  /\ bot.worker = "extracting"
  /\ bot' = [bot EXCEPT !.worker = "waiting", !.batch = Null,
                        !.extracted = @ \cup {bot.batch},
                        !.issues = IF success THEN @ ELSE @ \cup {bot.batch},
                        !.done = @ \cup {bot.batch},
                        !.unfinished = @ - 1]
  /\ UNCHANGED restVars

\* /quit or KeyboardInterrupt ends the input loop
Quit ==
  /\ bot.pc = "chat"
  /\ bot' = [bot EXCEPT !.pc = "stopping"]
  /\ UNCHANGED restVars

\* stop_memory_worker: cancel() and await the task. A worker waiting in
\* queue.get() ends with the queue as it is; in a worker awaiting the
\* extraction CancelledError passes the "except Exception" clauses and the
\* finally clause calls task_done for the batch it holds
StopMemoryWorker ==
  /\ bot.pc = "stopping"
  /\ bot' = IF bot.worker = "extracting"
            THEN [bot EXCEPT !.pc = "stopped", !.worker = "cancelled",
                             !.batch = Null,
                             !.done = @ \cup {bot.batch},
                             !.unfinished = @ - 1]
            ELSE [bot EXCEPT !.pc = "stopped", !.worker = "cancelled"]
  /\ UNCHANGED restVars

\* if not queue.empty(): await queue.join(); join returns when the count of
\* unfinished items is zero
WaitPending ==
  /\ bot.pc = "stopped"
  /\ bot.queue = <<>> \/ bot.unfinished = 0
  /\ bot' = [bot EXCEPT !.pc = "final"]
  /\ UNCHANGED restVars

\* the final extraction of the remaining messages and the cleanup
Goodbye ==
  /\ bot.pc = "final"
  /\ bot' = [bot EXCEPT !.pc = "done"]
  /\ UNCHANGED restVars

(* ============================ specifications ========================== *)

GetContext(u, profile_ok, cand, max_token_size, has_chats, filter, embed_ok, threshold, window, fill) ==
  /\ Idle
  /\ \E r \in get_conversation_context(u, profile_ok, cand, max_token_size,
                                       has_chats, filter,
                                       enable_event_embedding, embed_ok,
                                       threshold, window, fill) :
       call' = [op |-> "get_conversation_context", user_id |-> u,
                profile_ok |-> profile_ok, candidates |-> cand,
                max_token_size |-> max_token_size, has_chats |-> has_chats,
                filter |-> filter, fill |-> fill, result |-> r]
  /\ UNCHANGED <<bufVars, extVars, gists, enable_event_embedding, appVars>>

InitSearch ==
  /\ InitBufferVars
  /\ InitExtractVars
  /\ validate_mode = FALSE
  /\ gists = <<>>
  /\ enable_event_embedding \in BOOLEAN
  /\ call = NoCall
  /\ InitAppVars

NextSearch ==
  \/ \E u \in GistUsers, e \in BOOLEAN, t \in GistTokens :
        \E d \in (IF e THEN Distances ELSE {Null}) : PutGist(u, d, e, t)
  \/ Idle /\ Tick
  \/ ReadResult
  \/ \E u \in SearchUsers, embed_ok \in BOOLEAN, topk \in TopKs,
        threshold \in Thresholds, window \in Windows :
        SearchGists(u, embed_ok, topk, threshold, window)
  \/ \E u \in SearchUsers, topk \in TopKs, window \in Windows :
        RecentGists(u, topk, window)
  \/ \E u \in SearchUsers, embed_ok \in BOOLEAN, limit \in TopKs,
        threshold \in Thresholds, window \in Windows :
        SearchEvents(u, embed_ok, limit, threshold, window)
  \/ \E u \in SearchUsers, limit \in TopKs, window \in Windows :
        GetEvents(u, limit, window)
  \/ \E u \in SearchUsers, profile_ok \in BOOLEAN, cand \in CandidateSets,
        max_token_size \in MaxTokenSizes, has_chats \in BOOLEAN,
        filter \in FilterOutcomes, embed_ok \in BOOLEAN,
        threshold \in Thresholds, window \in Windows, fill \in FillOutcomes :
        GetContext(u, profile_ok, cand, max_token_size, has_chats, filter,
                   embed_ok, threshold, window, fill)

SpecSearch == InitSearch /\ [][NextSearch]_vars

NextGateway ==
  \/ \E u \in BufferUsers, t \in BlobTypes, tok \in TokenSizes :
        InsertBlob(u, t, tok)
  \/ \E f \in Flushes, u \in BufferUsers, t \in BlobTypes,
        ids \in (SUBSET BufferIds) \ {{}} : FlushClaim(f, u, t, ids)
  \/ \E f \in Flushes, llm_style \in LlmStyles,
        sched \in Schedules(ProviderOutcomes) :
        FlushPipeline(f, llm_style, sched)
  \/ \E llm_style \in LlmStyles, json_mode \in BOOLEAN,
        outcome \in ProviderOutcomes : LlmComplete(llm_style, json_mode, outcome)
  \/ \E u \in SearchUsers, sched \in Schedules(StorageOutcomes) :
        GetUserProfiles(u, sched)
  \/ \E u \in SearchUsers, limit \in TopKs, window \in Windows :
        GetEvents(u, limit, window)
  \/ ReadResult

InitGateway ==
  /\ InitBufferVars
  /\ InitExtractVars
  /\ validate_mode = FALSE
  /\ InitApiVars

SpecGateway == InitGateway /\ [][NextGateway]_vars

InitChat ==
  /\ InitBufferVars
  /\ InitExtractVars
  /\ validate_mode = FALSE
  /\ gists = <<>>
  /\ enable_event_embedding = TRUE
  /\ call = NoCall
  /\ mysql_storage = NoStorage
  /\ bot = NewBot

NextChat ==
  \/ StartMemoryWorker
  \/ QueueMemoryExtraction
  \/ WorkerGet
  \/ \E success \in BOOLEAN : WorkerExtract(success)
  \/ Quit
  \/ StopMemoryWorker
  \/ WaitPending
  \/ Goodbye

SpecChat == InitChat /\ [][NextChat]_vars

\* the event loop runs every task that is ready: the worker's steps and the
\* steps of chat_loop after the input loop; the user's turns are not forced
SpecChatFair ==
  /\ SpecChat
  /\ WF_vars(WorkerGet) /\ WF_vars(\E success \in BOOLEAN : WorkerExtract(success))
  /\ WF_vars(StopMemoryWorker) /\ WF_vars(WaitPending) /\ WF_vars(Goodbye)

InitTruncate ==
  /\ InitBufferVars
  /\ InitExtractVars
  /\ validate_mode = FALSE
  /\ gists \in TruncateStores
  /\ enable_event_embedding = TRUE
  /\ call = NoCall
  /\ InitAppVars

NextTruncate ==
  \/ \E max_token_size \in TruncateLimits : TruncateEventGists(max_token_size)
  \/ ReadResult

SpecTruncate == InitTruncate /\ [][NextTruncate]_vars

InitStore ==
  /\ InitBufferVars
  /\ profiles = {}
  /\ nextPid = 1
  /\ events = {}
  /\ ext = [e \in Extracts |-> NewExtract]
  /\ lastExt = Null
  /\ validate_mode = FALSE
  /\ InitApiVars

NextStore ==
  \/ \E config \in Configs, u \in StoreUsers, contents \in ContentLists :
        \E attributes_list \in [1..Len(contents) -> Slots] :
           AddProfiles(config, u, contents, attributes_list)
  \/ \E config \in Configs, u \in StoreUsers, items \in UpdateLists :
        UpdateProfiles(config, u, items)
  \/ \E config \in Configs, u \in StoreUsers, ids \in SUBSET ProfileIds :
        DeleteProfiles(config, u, ids)
  \/ \E config \in Configs, u \in StoreUsers, topics \in SUBSET Topics :
        ReadProfiles(config, u, topics)
  \/ \E config \in Configs, u \in StoreUsers,
        only_topics \in {<<>>} \cup {<<S>> : S \in SUBSET Topics},
        prefer_topics \in SUBSET Topics :
        ReadCandidates(config, u, only_topics, prefer_topics)
  \/ Idle /\ Tick
  \/ ReadResult

SpecStore == InitStore /\ [][NextStore]_vars


NextBuffer ==
  \/ \E u \in BufferUsers, t \in BlobTypes, tok \in TokenSizes :
        InsertBlob(u, t, tok)
  \/ Tick
  \/ \E f \in Flushes, u \in BufferUsers, t \in BlobTypes,
        ids \in (SUBSET BufferIds) \ {{}} : FlushClaim(f, u, t, ids)
  \/ \E f \in Flushes : FlushSucceed(f)
  \/ \E f \in Flushes : FlushFail(f)
  \/ \E f \in Flushes : FlushCancel(f)
  \/ WatchdogStep

InitBuffer ==
  /\ InitBufferVars
  /\ InitExtractVars
  /\ validate_mode = FALSE
  /\ InitApiVars

SpecBuffer == InitBuffer /\ [][NextBuffer]_vars

SpecBufferFair == SpecBuffer /\ WF_vars(WatchdogStep)

(* ======================= claims on the buffer ========================= *)

BatchOf(f) == SeqToSet(flush[f].batch)

\* a flush call takes its claiming step
ClaimStep(f) == flush[f].pc = "new" /\ flush'[f].pc # "new"

\* no buffer id is in the batch of two flush calls
C1_ClaimedOnce ==
  \A b \in BufferIds : Cardinality({f \in Flushes : b \in BatchOf(f)}) <= 1

\* the claiming step takes exactly the selected rows that are idle
C1_DropsNonIdle ==
  \A f \in Flushes :
    ClaimStep(f) =>
      /\ flush'[f].pc \in {"running", "empty"}
      /\ \A b \in BufferIds :
           IF buffer[b].status = "idle"
           THEN (b \in SeqToSet(flush'[f].batch)) =
                  (buffer'[b].status = "processing")
           ELSE /\ b \notin SeqToSet(flush'[f].batch)
                /\ buffer'[b] = buffer[b]

\* C1: under concurrent flushes of one (user, blob_type) with overlapping
\* buffer ids, every buffer id is claimed (idle -> processing) by at most
\* one flush call and so handed to the extraction pipeline at most once; a
\* flush leaves out, without an error, every selected row that is no longer
\* idle, and does not touch it.
C1_NoDoubleProcessing == [](C1_ClaimedOnce) /\ [][C1_DropsNonIdle]_vars

\* two flush calls overlap: the second asked for a row the first holds in
\* processing and went on without it
C1_Witness ==
  \E f, g \in Flushes :
    /\ f # g
    /\ flush[f].pc = "running"
    /\ flush[g].pc \in {"running", "empty"}
    /\ flush[g].dropped
    /\ \A b \in BatchOf(f) : b \notin BatchOf(g)

AllowedTransitions ==
  {<<"idle", "processing">>, <<"processing", "done">>,
   <<"processing", "failed">>}

\* one step of the status state machine
C2_StatusStep ==
  /\ Len(buffer') >= Len(buffer)
  /\ \A b \in BufferIds :
       \/ buffer'[b].status = buffer[b].status
       \/ <<buffer[b].status, buffer'[b].status>> \in AllowedTransitions

\* C2: over every interleaving of insert, flush (succeeding, failing or
\* cancelled), concurrent flushes and the watchdog, a row's status changes
\* only idle -> processing, processing -> done or processing -> failed; a
\* row that left idle is never idle again, done and failed are final, and
\* no row disappears.
C2_NoBackwardTransition == [][C2_StatusStep]_vars

C2_Witness ==
  /\ \E b \in BufferIds : buffer[b].status = "done"
  /\ \E b \in BufferIds : buffer[b].status = "failed"
  /\ \E f \in Flushes : flush[f].pc = "cancelled"

\* C4: a flush that claimed rows and whose pipeline succeeded has all of
\* them in done when it returns; when the pipeline failed it has all of
\* them in failed and re-raises; no row claimed by a flush that has
\* returned (normally or with the error) is still in processing.
C4_FlushOutcome ==
  \A f \in Flushes :
    /\ flush[f].pc = "ok" =>
         \A b \in BatchOf(f) : buffer[b].status = "done"
    /\ flush[f].pc = "raised" =>
         \A b \in BatchOf(f) : buffer[b].status = "failed"
    /\ flush[f].pc \in {"ok", "raised", "empty"} =>
         \A b \in BatchOf(f) : buffer[b].status # "processing"

C4_Witness ==
  \E f, g \in Flushes :
    /\ flush[f].pc = "ok" /\ Len(flush[f].batch) >= 1
    /\ flush[g].pc = "raised" /\ Len(flush[g].batch) >= 1

Resolved(b) == b \in BufferIds /\ buffer[b].status \in {"done", "failed"}

\* the cancelling step changes no row
C5_CancelKeeps ==
  \A f \in Flushes :
    (flush[f].pc = "running" /\ flush'[f].pc = "cancelled") =>
      /\ buffer' = buffer
      /\ \A b \in BatchOf(f) : buffer'[b].status = "processing"

IdleSet(u, t) ==
  {b \in BufferIds : /\ buffer[b].user_id = u
                     /\ buffer[b].blob_type = t
                     /\ buffer[b].status = "idle"}

TokensOf(S) ==
  LET RECURSIVE Sum(_)
      Sum(T) == IF T = {} THEN 0
                ELSE LET x == CHOOSE y \in T : TRUE
                     IN buffer[x].token_size + Sum(T \ {x})
  IN Sum(S)

Increasing(s) == \A i, j \in 1..Len(s) : i < j => s[i] < s[j]

\* the idle rows up to and including row k
UpTo(u, t, k) == {b \in IdleSet(u, t) : b <= k}

\* C9: flush_candidates is empty while the idle token sum does not exceed
\* the threshold and no idle row is older than max_buffer_age; once the sum
\* exceeds the threshold it is exactly the shortest prefix of the idle rows,
\* in insertion order, whose sum exceeds the threshold, plus every idle row
\* older than max_buffer_age.
C9_FlushCandidates ==
  \A u \in BufferUsers, t \in BlobTypes :
    LET got == flush_candidates(u, t)
        idle == IdleSet(u, t)
        aged == {b \in idle : now - buffer[b].created_at > max_buffer_age}
        over == TokensOf(idle) > BufferThreshold(t)
        cut == {k \in idle : TokensOf(UpTo(u, t, k)) > BufferThreshold(t)}
        first == CHOOSE k \in cut : \A j \in cut : k <= j
    IN /\ Increasing(got)
       /\ (~over /\ aged = {}) => got = <<>>
       /\ over => SeqToSet(got) = UpTo(u, t, first) \cup aged
       /\ ~over => SeqToSet(got) = aged

\* the threshold is exceeded by a proper prefix of the idle rows
C9_Witness ==
  \E u \in BufferUsers, t \in BlobTypes :
    /\ TokensOf(IdleSet(u, t)) > BufferThreshold(t)
    /\ Len(flush_candidates(u, t)) >= 1
    /\ Len(flush_candidates(u, t)) < Cardinality(IdleSet(u, t))

C11_Count ==
  \A u \in BufferUsers, t \in BlobTypes :
    capacity(u, t) = Cardinality(IdleSet(u, t))

\* an insert adds one to the capacity of the inserted blob's type only; a
\* claiming flush takes its batch off the capacity of the flushed type
C11_Step ==
  /\ Len(buffer') = Len(buffer) + 1 =>
       LET new == buffer'[Len(buffer')]
       IN \A u \in BufferUsers, t \in BlobTypes :
            capacity(u, t)' =
              IF u = new.user_id /\ t = new.blob_type
              THEN capacity(u, t) + 1 ELSE capacity(u, t)
  /\ \A f \in Flushes :
       ClaimStep(f) =>
         \A u \in BufferUsers, t \in BlobTypes :
           capacity(u, t)' =
             capacity(u, t) -
               Cardinality({b \in SeqToSet(flush'[f].batch) :
                              buffer[b].user_id = u /\ buffer[b].blob_type = t})

\* C11: after any sequence of inserts and flushes capacity(user, blob_type)
\* is the number of that user's rows of that blob type whose status is idle;
\* an insert raises it by exactly one for the inserted blob's type and
\* leaves the other blob types' counts alone, and rows claimed by a flush no
\* longer count.
C11_CapacityCountsIdle == [](C11_Count) /\ [][C11_Step]_vars

\* both blob types hold rows and a flush has taken one of them
C11_Witness ==
  /\ \E f \in Flushes : flush[f].pc = "running"
  /\ \E u \in BufferUsers :
       /\ capacity(u, "chat") = 0
       /\ capacity(u, "doc") = 1
       /\ \E b \in BufferIds : buffer[b].blob_type = "chat"

BlobsOf(b) == {r \in blobs : r.blob_id = buffer[b].blob_id}

\* every buffer row has exactly one blob row, of its user, and every row a
\* flush selected was paired with exactly that blob row
C12_Referenced ==
  /\ \A b \in BufferIds :
       /\ Cardinality(BlobsOf(b)) = 1
       /\ \A r \in BlobsOf(b) : r.user_id = buffer[b].user_id
  /\ \A f \in Flushes :
       /\ Len(flush[f].bodies) = Len(flush[f].batch)
       /\ \A i \in 1..Len(flush[f].batch) :
            flush[f].bodies[i] = BlobsOf(flush[f].batch[i])

\* no step deletes or rewrites a blob row; an insert adds one buffer row
\* and one blob row, every other step adds none
C12_Step ==
  /\ blobs \subseteq blobs'
  /\ Cardinality(blobs') - Cardinality(blobs) = Len(buffer') - Len(buffer)
  /\ Len(buffer') - Len(buffer) \in {0, 1}
  /\ \A b \in BufferIds : buffer'[b].blob_id = buffer[b].blob_id

Returned(e) == ext[e].pc = "returned" /\ ext[e].result = "ok"

UniqueSlots(u) ==
  \A r, q \in UserRows(profiles, u) : SlotOf(r) = SlotOf(q) => r = q

\* C3: after every successful extract_memories for a user, also when the
\* batch holds several facts for one slot, when the store already holds the
\* slot and when several extractions of the user are interleaved, no two
\* profile rows of that user have the same (topic, sub_topic).
C3_UniqueSlotAfterExtract ==
  \A e \in Extracts : Returned(e) => UniqueSlots(ext[e].user_id)

AllKeep(e) ==
  \A i \in 1..Len(ext[e].plan.outcomes) : ext[e].plan.outcomes[i] = "keep"

StageOrder == <<"delete", "update", "add", "event">>

IsPrefix(s, t) == Len(s) <= Len(t) /\ \A i \in 1..Len(s) : s[i] = t[i]

RowIds(rows) == {r.id : r \in rows}

\* what one step of extraction e may do to the store, by the stage it runs
StageStep(e) ==
  LET u == ext[e].user_id
      plan == ext[e].plan
      from == ext[e].pc
      to == ext'[e].pc
  IN CASE from = "planned" /\ to = "deleted" ->
            /\ profiles' = {r \in profiles :
                              ~(r.user_id = u /\ r.id \in plan.delete)}
            /\ events' = events
       [] from = "deleted" /\ to = "updated" ->
            /\ RowIds(profiles') = RowIds(profiles)
            /\ \A r \in profiles' :
                 \/ r \in profiles
                 \/ \E x \in plan.update :
                      x.id = r.id /\ x.content = r.content /\ r.user_id = u
            /\ \A x \in plan.update :
                 (\E r \in UserRows(profiles, u) : r.id = x.id) =>
                 (\E r \in UserRows(profiles', u) :
                      r.id = x.id /\ r.content = x.content)
            /\ events' = events
       [] from = "updated" /\ to = "added" ->
            /\ profiles \subseteq profiles'
            /\ Cardinality(profiles' \ profiles) = Len(plan.add)
            /\ \A i \in 1..Len(plan.add) :
                 \E r \in profiles' \ profiles :
                   /\ r.user_id = u
                   /\ SlotOf(r) = plan.add[i].slot
                   /\ r.content = plan.add[i].content
            /\ events' = events
       [] from = "added" /\ to = "returned" ->
            profiles' = profiles
       [] to = "failed" ->
            /\ from \in {"planned", "deleted", "updated"}
            /\ profiles' = profiles
            /\ events' = events
            /\ ext'[e].result = "error"
            /\ ext'[e].applied = ext[e].applied
       [] from = "new" /\ to = "planned" ->
            profiles' = profiles /\ events' = events
       [] OTHER -> FALSE

C7_Step ==
  \A e \in Extracts :
    /\ ext'[e].pc # ext[e].pc => StageStep(e)
    /\ ext[e].pc = "failed" => ext'[e] = ext[e]

C7_Stages ==
  \A e \in Extracts :
    /\ IsPrefix(ext[e].applied, StageOrder)
    /\ ext[e].pc = "failed" =>
         /\ ext[e].result = "error"
         /\ ext[e].event_id = Null
         /\ \A i \in 1..Len(ext[e].applied) :
              ext[e].applied[i] \notin {"add", "event"}
    /\ ext[e].result = "error" => ext[e].pc = "failed"

\* C7: within one extraction the plan is applied in the order deletes,
\* updates, adds; when a step fails no later step and no event synthesis
\* runs for that extraction, the error is surfaced by extract_memories, and
\* the failing step leaves the store as the applied steps left it.
C7_ApplyOrderAndAbort == [](C7_Stages) /\ [][C7_Step]_vars

\* an extraction failed on its adds after its update had been applied
C7_Witness ==
  \E e \in Extracts :
    /\ ext[e].pc = "failed"
    /\ ext[e].applied = <<"delete", "update">>
    /\ ext[e].plan.add # <<>>
    /\ \E x \in ext[e].plan.update :
         \E r \in UserRows(profiles, ext[e].user_id) :
           r.id = x.id /\ r.content = x.content /\ r \notin ext[e].before

\* the step that leaves the event stage
C8_Step ==
  \A e \in Extracts :
    (ext[e].pc = "added" /\ ext'[e].pc # "added") =>
      /\ ext'[e].pc = "returned"
      /\ ext'[e].result = "ok"
      /\ profiles' = profiles
      /\ (events' = events) = (ext'[e].event_id = Null)

\* a call that returned without an event returned success
C8_State ==
  \A e \in Extracts :
    (ext[e].pc = "returned" /\ ext[e].event_id = Null) =>
      /\ ext[e].result = "ok"
      /\ ext[e].applied = <<"delete", "update", "add">>

\* C8: when event synthesis fails after the profile mutations were applied,
\* extract_memories still returns success with event_id = null and the
\* store keeps the applied mutations.
C8_EventBestEffort == [](C8_State) /\ [][C8_Step]_vars

\* a call returned without an event while the rows it added are stored
C8_Witness ==
  \E e \in Extracts :
    /\ Returned(e)
    /\ ext[e].event_id = Null
    /\ ext[e].plan.add # <<>>
    /\ \A i \in 1..Len(ext[e].plan.add) :
         \E r \in UserRows(profiles, ext[e].user_id) :
           SlotOf(r) = ext[e].plan.add[i].slot /\ r \notin ext[e].before

(* ================= claims on event search and context ================= *)

\* search_user_event_gists answered a disabled configuration
C13_SearchGists ==
  (call.op = "search_gists" /\ ~enable_event_embedding) =>
    /\ ~call.result.ok
    /\ call.result.code = "NOT_IMPLEMENTED"
    /\ ~call.result.embedded

\* the facade's search_events answered a disabled configuration
C13_SearchEvents ==
  (call.op = "search_events" /\ ~enable_event_embedding) =>
    /\ ~call.result.ok
    /\ call.result.cause = "NOT_IMPLEMENTED"
    /\ ~call.embedded

\* the context of a disabled configuration takes its events from the
\* recent gists
C13_Context ==
  (call.op = "get_conversation_context" /\ ~enable_event_embedding
     /\ call.profile_ok) =>
    /\ call.result.ok
    /\ call.result.via = "recent"
    /\ call.fill = "off" =>
         \E window \in Windows :
           \E r \in get_user_event_gists(call.user_id, DataTopk, window) :
             call.result.events =
               truncate_event_gists(r.data, call.max_token_size
                                              - SumSeq(call.result.profiles))

\* C13: when enable_event_embedding is false, search_events and search_gists
\* always return the NotImplemented failure, with no embedding call, no
\* fallback to recency and no retry, while get_conversation_context still
\* succeeds and fills its events from recent_gists.
C13_DisabledNotImplemented == C13_SearchGists /\ C13_SearchEvents /\ C13_Context

\* the gists search_gists has to return: of the user, with an embedding, at
\* least as similar as the threshold, created inside the window
C14_Qualifying(u, threshold, window) ==
  {g \in GistIds : /\ gists[g].user_id = u
                   /\ gists[g].has_embedding
                   /\ similarity_expr(g) >= threshold
                   /\ gists[g].created_at > now - window}

\* C14: search_gists(user, query, topk, threshold, window) returns only gists
\* of that user that have an embedding, whose similarity to the query is >=
\* threshold (a similarity equal to the threshold qualifies) and whose
\* created_at is later than now minus the window; every such gist is
\* returned when at most topk qualify, and the results are in descending
\* order of similarity.
C14_SearchContract ==
  (call.op = "search_gists" /\ call.result.ok) =>
    LET q == call.result.data
        Q == C14_Qualifying(call.user_id, call.threshold, call.window)
    IN  /\ \A i \in 1..Len(q) : q[i] \in Q
        /\ \A i, j \in 1..Len(q) : i # j => q[i] # q[j]
        /\ Cardinality(Q) <= call.topk => \A g \in Q : \E i \in 1..Len(q) : q[i] = g
        /\ \A i, j \in 1..Len(q) :
             i < j => similarity_expr(q[i]) >= similarity_expr(q[j])

\* the same with the comparison of the WHERE clause: strictly above the
\* threshold
C14_SearchStrict ==
  (call.op = "search_gists" /\ call.result.ok) =>
    LET q == call.result.data
        Q == {g \in C14_Qualifying(call.user_id, call.threshold, call.window) :
                similarity_expr(g) > call.threshold}
    IN  /\ \A i \in 1..Len(q) : q[i] \in Q
        /\ Cardinality(Q) <= call.topk => \A g \in Q : \E i \in 1..Len(q) : q[i] = g
        /\ \A i, j \in 1..Len(q) :
             i < j => similarity_expr(q[i]) >= similarity_expr(q[j])

\* the result of a recent_gists call is in descending created_at order
C15_Descending ==
  \A i, j \in 1..Len(call.result.data) :
    i < j => gists[call.result.data[i]].created_at
               >= gists[call.result.data[j]].created_at

\* every gist a search with threshold 0 can return for the same user, topk
\* and window is in the result of the recent_gists call
C15_Superset ==
  \A s \in search_user_event_gists(call.user_id, TRUE, TRUE, call.topk, 0,
                                   call.window) :
    \A i \in 1..Len(s.data) :
      \E j \in 1..Len(call.result.data) : call.result.data[j] = s.data[i]

\* C15 as stated: for the same user, window and topk, recent_gists returns
\* gists in descending created_at order, and every gist returned by
\* search_gists with threshold = 0 is also returned by recent_gists.
C15_RecentSuperset ==
  (call.op = "recent_gists" /\ call.result.ok) =>
    C15_Descending /\ C15_Superset

\* C15, amended: recent_gists returns gists in descending created_at order,
\* and when the user has at most topk gists inside the window every gist
\* returned by search_gists with threshold = 0 for the same user, window and
\* topk is also returned by recent_gists.
C15_RecentSupersetWithinTopk ==
  (call.op = "recent_gists" /\ call.result.ok) =>
    /\ C15_Descending
    /\ Cardinality(RecentRows(call.user_id, call.window)) <= call.topk
         => C15_Superset

\* recent_gists returned two gists of different age, and a search with
\* threshold 0 returns some gist
C15_Witness ==
  /\ call.op = "recent_gists"
  /\ call.result.ok
  /\ Len(call.result.data) = 2
  /\ gists[call.result.data[1]].created_at > gists[call.result.data[2]].created_at
  /\ \E s \in search_user_event_gists(call.user_id, TRUE, TRUE, call.topk, 0,
                                      call.window) : s.data # <<>>

(* ================== claims on gateway calls and retries =============== *)

\* the pipeline's stage call surfaces SERVICE_UNAVAILABLE only after the
\* one retry of it, and never makes a second retry
C16_Pipeline ==
  (call.op = "process_blobs" /\ call.llm_style \in FACTORIES) =>
    LET n == Cardinality({i \in 1..call.result.attempts :
                            call.sched[i] = "unavailable"})
    IN  /\ n <= 2
        /\ (~call.result.ok /\ call.result.code = "SERVICE_UNAVAILABLE") <=> n = 2

\* the facade's get_user_profiles reads up to three times and returns the
\* rows of the first read that succeeds
C16_ReadProfiles ==
  call.op = "get_user_profiles" =>
    LET good == {i \in 1..MaxCalls : call.sched[i] = "rows"}
    IN  IF good = {}
        THEN ~call.result.ok /\ call.result.attempts = MaxCalls
        ELSE /\ call.result.ok
             /\ call.result.attempts = CHOOSE i \in good : \A j \in good : i <= j

\* the facade's get_events, whose storage read never fails in this model,
\* returns its result
C16_ReadEvents == call.op = "get_events" => call.result.ok

\* C16: a ServiceUnavailable failure of an LLM, embedding or storage call is
\* retried exactly once by the extraction pipeline and exactly twice by the
\* facade's idempotent reads (get_user_profiles, get_events) before it is
\* surfaced; a read whose first attempt fails and whose retry succeeds
\* returns the result instead of an error.
C16_RetryPolicy == C16_Pipeline /\ C16_ReadProfiles /\ C16_ReadEvents

\* the garbage answers among the attempts a stage call made
C17_Unparsed ==
  {i \in 1..call.result.attempts : call.sched[i] = "garbage"}

\* a stage call of a registered provider: a response that does not parse is
\* followed by one more attempt, and UNPROCESSABLE_ENTITY is the result
\* exactly when that attempt's response does not parse either
C17_OneReformat ==
  (call.op = "process_blobs" /\ call.llm_style \in FACTORIES) =>
    /\ Cardinality(C17_Unparsed) <= 2
    /\ call.sched[1] = "garbage" => call.result.attempts >= 2
    /\ (call.sched[1] = "garbage" /\ call.sched[2] = "json") =>
         call.result.ok /\ call.result.attempts = 2
    /\ (call.sched[1] = "garbage" /\ call.sched[2] = "garbage") =>
         ~call.result.ok /\ call.result.attempts = 2
    /\ (~call.result.ok /\ call.result.code = "UNPROCESSABLE_ENTITY")
         <=> Cardinality(C17_Unparsed) = 2

\* the flush whose pipeline ends with UNPROCESSABLE_ENTITY raises and has
\* the rows of its batch failed; no other row and no other flush changes
C17_Step ==
  \A f \in Flushes :
    (flush[f].pc = "running" /\ flush'[f].pc # "running"
       /\ ~call'.result.ok /\ call'.result.code = "UNPROCESSABLE_ENTITY") =>
      /\ flush'[f].pc = "raised"
      /\ \A b \in BufferIds :
           IF b \in SeqToSet(flush[f].batch)
           THEN buffer'[b].status = "failed"
           ELSE buffer'[b] = buffer[b]
      /\ \A g \in Flushes \ {f} : flush'[g] = flush[g]

\* C17: when a json_mode LLM response cannot be parsed, exactly one reformat
\* retry is made; only if that retry also fails to parse is the
\* Unprocessable error returned, and that error fails the current batch only
\* (its buffer entries become failed) without affecting other batches.
C17_ReformatOnce == [](C17_OneReformat) /\ [][C17_Step]_vars

\* a flush raised Unprocessable after the reformat retry, its rows are
\* failed, and the row of another batch is still being processed
C17_Witness ==
  /\ call.op = "process_blobs"
  /\ call.result.code = "UNPROCESSABLE_ENTITY"
  /\ call.result.attempts = 2
  /\ flush[call.flush].pc = "raised"
  /\ \A b \in SeqToSet(flush[call.flush].batch) : buffer[b].status = "failed"
  /\ \E g \in Flushes \ {call.flush} :
       /\ flush[g].pc = "running"
       /\ \A b \in SeqToSet(flush[g].batch) : buffer[b].status = "processing"

\* an unregistered llm_style is refused when the facade is constructed or
\* by the first llm_complete call, as a configuration error
C18_Refused ==
  (call.op = "llm_complete" /\ call.llm_style \notin FACTORIES) =>
    \/ call.facade = "ConfigError"
    \/ ~call.result.ok /\ call.result.code = "CONFIG_ERROR"

\* the pipeline does not take the failure for a transient one: one attempt
C18_NotRetried ==
  (call.op = "process_blobs" /\ call.llm_style \notin FACTORIES) =>
    /\ ~call.result.ok
    /\ call.result.code # "SERVICE_UNAVAILABLE"
    /\ call.result.attempts = 1

\* C18: a Config whose llm_style names no registered provider yields a
\* ConfigError at facade construction or at the first LLM call; it is a
\* non-recoverable configuration error, not a transient failure that the
\* pipeline retries.
C18_UnknownStyleIsConfigError == C18_Refused /\ C18_NotRetried

PosIn(q, r) == CHOOSE i \in 1..Len(q) : q[i] = r

\* C21: in the candidate set built from the rows read, no row of a topic
\* outside only_topics is present (when only_topics is given), every other
\* row read is present once, every row of a prefer_topics topic comes before
\* every other row, and inside each of the two groups the rows keep the
\* relative order in which they were read
C21_Candidates ==
  call.op = "profile_candidates" =>
    LET q == call.rows
        c == call.result.data
        kept == {q[i] : i \in {j \in 1..Len(q) :
                   call.only_topics = <<>>
                     \/ q[j].topic \in call.only_topics[1]}}
        pref(r) == r.topic \in call.prefer_topics
    IN /\ call.result.ok
       /\ {c[i] : i \in 1..Len(c)} = kept
       /\ Len(c) = Cardinality(kept)
       /\ \A i, j \in 1..Len(c) :
            i < j => /\ ~(pref(c[j]) /\ ~pref(c[i]))
                     /\ (pref(c[i]) = pref(c[j])
                           => PosIn(q, c[i]) < PosIn(q, c[j]))

\* a preferred row read second is moved in front of the row read first, and
\* a whitelist has removed nothing that it names
C21_Witness ==
  /\ call.op = "profile_candidates"
  /\ Len(call.rows) = 2
  /\ call.only_topics # <<>>
  /\ Len(call.result.data) = 2
  /\ call.result.data[1] = call.rows[2]
  /\ call.rows[2].topic \in call.prefer_topics

\* a whitelist has removed a row that was read
C21_WitnessFiltered ==
  /\ call.op = "profile_candidates"
  /\ Len(call.rows) = 2
  /\ call.only_topics # <<>>
  /\ Len(call.result.data) = 1

\* the ids an update call lists
ItemIds(items) == {items[i].id : i \in 1..Len(items)}

\* the rows an update for user u on database db is about
Targeted(db, u, items) ==
  {r \in profiles : r.db = db /\ r.user_id = u /\ r.id \in ItemIds(items)}

\* C22: an update for a user rewrites the content (and the attributes only
\* when the call gives them) of exactly the listed rows that exist for that
\* user, returns exactly their ids in input order, does not fail on a listed
\* id that does not exist for the user, and leaves every other row as it was
C22_Update ==
  [][(Idle /\ call'.op = "update_profiles") =>
       LET u == call'.user_id
           items == call'.items
           hit == Targeted(mysql_storage', u, items)
           gives(id) == \E i \in 1..Len(items) :
                           items[i].id = id
                             /\ items[i].attributes # NoAttributes
       IN /\ call'.result.ok
          /\ call'.result.data
               = SelectSeq([i \in 1..Len(items) |-> items[i].id],
                           LAMBDA id : \E r \in hit : r.id = id)
          /\ profiles \ hit \subseteq profiles'
          /\ Cardinality(profiles') = Cardinality(profiles)
          /\ \A r \in hit :
               \E w \in profiles' :
                 /\ w.db = r.db /\ w.user_id = r.user_id /\ w.id = r.id
                 /\ w.content = "m3"
                 /\ w.updated_at = now
                 /\ <<w.topic, w.sub_topic>>
                      = IF gives(r.id) THEN <<"hobby", "music">>
                        ELSE <<r.topic, r.sub_topic>>]_vars

\* an update listing an id of the user and the id of another user's row has
\* returned the first id alone, the other user's row standing as it was
C22_Witness ==
  /\ call.op = "update_profiles"
  /\ Len(call.items) = 2
  /\ call.result.ok
  /\ Len(call.result.data) = 1
  /\ \E r \in profiles : /\ r.user_id # call.user_id
                         /\ r.id \in ItemIds(call.items)
                         /\ r.content # "m3"
  /\ \E r \in profiles : /\ r.user_id = call.user_id
                         /\ r.id = call.result.data[1]
                         /\ r.content = "m3"

(* ================= claims on reads of an unknown user ================= *)

C24_DeleteGated ==
  [][/\ \A r \in profiles :
          (\A w \in profiles' : w.id # r.id) =>
             /\ validate_mode
             /\ \E e \in Extracts :
                  /\ ext[e].pc = "planned" /\ ext'[e].pc = "deleted"
                  /\ ext[e].user_id = r.user_id
                  /\ r.id \in ext[e].plan.delete
                  /\ \E i \in 1..Len(ext[e].plan.outcomes) :
                        ext[e].plan.outcomes[i] = "delete"
     /\ ~validate_mode => \A e \in Extracts : ext'[e].plan.delete = {}]_vars

\* with validation on, an extraction whose merge answered delete has
\* removed the row of the extracting user
C24_Witness ==
  /\ validate_mode
  /\ \E e \in Extracts :
       /\ ext[e].pc \in {"deleted", "updated", "added"}
       /\ ext[e].plan.delete # {}
       /\ \A id \in ext[e].plan.delete : \A w \in profiles : w.id # id
       /\ \E r \in ext[e].before : r.id \in ext[e].plan.delete

(* ================= claims on the store behind a Config ================ *)

\* C25: every storage operation acts on the store of the Config it was
\* given: the storage object that served the call is the one of that Config,
\* and the rows an add returns lie in that Config's database, also for a
\* second facade constructed with a different Config
C25_OwnStore ==
  (call # NoCall /\ call.op \in {"add_profiles", "update_profiles",
                                 "delete_profiles", "get_user_profiles"}) =>
    /\ mysql_storage = call.config
    /\ call.op = "add_profiles" =>
         \A i \in 1..Len(call.result.data) :
            \A r \in profiles : r.id = call.result.data[i] => r.db = call.config

\* what the code does instead: every call is served by the storage object
\* of the first Config that reached the module
C25_FirstConfigServes ==
  [][(Idle /\ ~Idle' /\ mysql_storage # NoStorage) =>
        /\ mysql_storage' = mysql_storage
        /\ \A r \in profiles' \ profiles : r.db = mysql_storage]_vars

(* ===================== claims on user isolation ======================= *)

\* the ids of the rows the profile table holds
StoredIds == {r.id : r \in profiles}

\* C26: a profile-store or event-store call made for user u returns no row
\* of another user and changes or deletes no row of another user, also when
\* the call lists the profile ids of the other user's rows
C26_Isolation ==
  /\ (call.op \in {"search_gists", "recent_gists"} /\ call.result.ok) =>
        \A i \in 1..Len(call.result.data) :
           gists[call.result.data[i]].user_id = call.user_id
  /\ \A u \in SearchUsers :
       LET others == profiles \ UserRows(profiles, u)
       IN /\ \A q \in select_user_profiles(profiles, u) :
               \A i \in 1..Len(q) : q[i].user_id = u
          /\ \A ids \in SUBSET StoredIds :
               /\ others \subseteq delete_profiles(profiles, u, ids).rows
               /\ \A id \in ids, a \in {NoAttributes, <<"hobby", "music">>} :
                    LET p == update_profiles(profiles, u,
                               <<[id |-> id, content |-> "m3",
                                  attributes |-> a]>>, now)
                    IN /\ others \subseteq p.rows
                       /\ \A i \in 1..Len(p.data) :
                            \E r \in UserRows(profiles, u) : r.id = p.data[i]

\* a search has returned a gist of the caller and left out a gist of another
\* user that passes the same filters, with room left under topk, while the
\* profile table holds a row of another user whose id the caller can name
C26_Witness ==
  /\ call.op = "search_gists"
  /\ call.result.ok
  /\ Len(call.result.data) = 1
  /\ call.topk = 2
  /\ \E g \in GistIds :
       /\ gists[g].user_id # call.user_id
       /\ gists[g].has_embedding
       /\ gists[g].created_at > time_cutoff(call.window)
       /\ similarity_expr(g) > call.threshold
  /\ \E r \in profiles : r.user_id # call.user_id /\ r.id \in StoredIds

\* the same for the calls on a table that holds rows of both users: a call
\* for u leaves the rows of every other user as they were and reads none
C26_StoreCalls ==
  [][(Idle /\ ~Idle') =>
       LET u == call'.user_id
       IN /\ {r \in profiles : r.user_id # u}
               = {r \in profiles' : r.user_id # u}
          /\ call'.op \in {"get_user_profiles", "profile_candidates"} =>
               \A i \in 1..Len(call'.rows) : call'.rows[i].user_id = u]_vars

(* ==================== claims on gist truncation ======================= *)

\* the token counts of the first k gists of a list
PrefixTokens(ids, k) == SumSeq([i \in 1..k |-> gists[ids[i]].tokens])

\* C27: truncate_event_gists keeps, in the original order, the longest
\* prefix of the gists whose cumulative token count is at most
\* max_token_size: all of them when max_token_size is None, none when the
\* first gist alone exceeds it, and it never passes over a gist that does
\* not fit to admit a later, smaller one
C27_LongestPrefix ==
  call.op = "truncate_event_gists" =>
    LET ids == call.events
        r == call.result.data
        m == call.max_token_size
    IN /\ call.result.ok
       /\ m = NoLimit => r = ids
       /\ m # NoLimit =>
            /\ Len(r) <= Len(ids)
            /\ r = SubSeq(ids, 1, Len(r))
            /\ PrefixTokens(ids, Len(r)) <= m
            /\ Len(r) < Len(ids) => PrefixTokens(ids, Len(r) + 1) > m

\* the second gist did not fit and the third, which would have fitted next
\* to the first, is left out with it
C27_Witness ==
  /\ call.op = "truncate_event_gists"
  /\ call.max_token_size # NoLimit
  /\ Len(call.events) = 3
  /\ Len(call.result.data) = 1
  /\ gists[1].tokens + gists[3].tokens <= call.max_token_size

\* no limit: every gist is returned
C27_WitnessNoLimit ==
  /\ call.op = "truncate_event_gists"
  /\ call.max_token_size = NoLimit
  /\ Len(call.result.data) = 3

\* the first gist alone exceeds the limit: nothing is returned
C27_WitnessNone ==
  /\ call.op = "truncate_event_gists"
  /\ call.max_token_size # NoLimit
  /\ Len(call.events) = 3
  /\ gists[1].tokens > call.max_token_size
  /\ gists[2].tokens <= call.max_token_size
  /\ call.result.data = <<>>

(* ================ claims on the facade's profile read ================= *)

\* the rows of one slot among the rows a read call fetched
FetchedAt(slot) ==
  {call.rows[i] : i \in {j \in 1..Len(call.rows) : SlotOf(call.rows[j]) = slot}}

\* C28: get_user_profiles(user, topics) returns each (topic, sub_topic) slot
\* at most once, only slots of the requested topics, and where the store
\* holds several rows of one slot the content returned is that of the most
\* recently updated row
C28_LatestPerSlot ==
  (call.op = "get_user_profiles" /\ call.result.ok) =>
    /\ \A g, h \in call.result.data : g.slot = h.slot => g = h
    /\ \A g \in call.result.data :
         /\ call.topics # {} => g.slot[1] \in call.topics
         /\ \E r \in FetchedAt(g.slot) :
              /\ r.content = g.content
              /\ \A o \in FetchedAt(g.slot) : o.updated_at <= r.updated_at

\* what the code returns: one entry per slot, with the content of a row of
\* the slot that no other row of the slot is older than
C28_OldestPerSlot ==
  (call.op = "get_user_profiles" /\ call.result.ok) =>
    /\ \A g, h \in call.result.data : g.slot = h.slot => g = h
    /\ \A g \in call.result.data :
         /\ call.topics # {} => g.slot[1] \in call.topics
         /\ \E r \in FetchedAt(g.slot) :
              /\ r.content = g.content
              /\ \A o \in FetchedAt(g.slot) : o.updated_at >= r.updated_at

(* ================ claims on the chatbot's extraction queue ============ *)

\* the batches put on the queue so far
Queued == 1..bot.queued

\* C29: every batch put on the extraction queue is run through
\* extract_memories to completion before it is marked done, also when the
\* worker is stopped while the batch is queued or in flight: no batch is
\* marked done without a completed extraction, and no queued batch is lost
C29_EveryBatchExtracted ==
  /\ [](bot.done \subseteq bot.extracted)
  /\ \A b \in BatchIds : (b \in Queued) ~> (b \in bot.extracted)

\* what holds instead: a batch is marked done only after the worker took it
\* from the queue, and a batch marked done without extraction was in flight
\* when the worker was stopped
C29_DoneWasTaken ==
  /\ \A b \in bot.done : b \in Queued /\ \A i \in 1..Len(bot.queue) : bot.queue[i] # b
  /\ bot.done \ bot.extracted # {} => bot.worker = "cancelled"
  /\ bot.unfinished = bot.queued - Cardinality(bot.done)

\* C30: after quit, chat_loop terminates, whatever the number of batches
\* waiting in the queue
C30_QuitTerminates == (bot.pc = "stopping") ~> (bot.pc = "done")

\* what holds instead: chat_loop terminates after quit when no batch waits
\* in the queue, and never when one does
C30_TerminatesIffEmpty ==
  /\ (bot.pc = "stopping" /\ bot.queue = <<>>) ~> (bot.pc = "done")
  /\ [](bot.pc = "stopping" /\ bot.queue # <<>> => [](bot.pc # "done"))

====
